---- MODULE Spec2Model ----
(***************************************************************************)
(* Model of generate_calendar.py: one run of main() as a state machine     *)
(* (fetch -> week bounds -> parse loop -> filter -> render -> write).      *)
(*                                                                         *)
(* Instants are whole seconds since 1970-01-01T00:00:00 UTC.  A datetime   *)
(* in zone Asia/Singapore has wall clock  instant + SG_OFFSET.  The        *)
(* microsecond field matters only for datetime.now() and for time.max, and *)
(* is kept apart from the seconds where it occurs.                         *)
(***************************************************************************)
EXTENDS Integers, Sequences, FiniteSets, TLC

VARIABLES pc, url, remote, fetched, cal, now, start_of_week, end_of_week,
          idx, events, week_events, html, written

vars == <<pc, url, remote, fetched, cal, now, start_of_week, end_of_week,
          idx, events, week_events, html, written>>

----------------------------------------------------------------------------
(* Time arithmetic *)

Minute == 60
Hour == 3600
Day == 86400
\* pytz Asia/Singapore as produced by astimezone()/now(): UTC+08:00
SG_OFFSET == 28800
\* pytz Asia/Singapore as attached by replace(tzinfo=SG_TZ): LMT+6:55
LMT_OFFSET == 24900
\* date(1970,1,1).weekday() (Monday = 0): a Thursday
EpochWeekday == 3

None == [none |-> TRUE]
\* main's cal: None, or the Calendar parsed from the feed
NoCal == [loaded |-> FALSE, comps |-> <<>>]
Calendar(feed) == [loaded |-> TRUE, comps |-> feed]

Max2(a, b) == IF a >= b THEN a ELSE b
Min2(a, b) == IF a <= b THEN a ELSE b

\* wall clock seconds of instant t in a zone of offset off
Wall(t, off) == t + off
\* datetime.date() of instant t in a zone of offset off, as a day number
DateOf(t, off) == Wall(t, off) \div Day
\* time of day (seconds after midnight) of instant t in a zone
TimeOfDay(t, off) == Wall(t, off) % Day
\* date.weekday(): Monday = 0 ... Sunday = 6
Weekday(d) == (d + EpochWeekday) % 7
\* the instant of wall clock (day d, second s) in a zone of offset off
At(d, s, off) == d * Day + s - off

----------------------------------------------------------------------------
(* Feed contents: the values icalendar hands to parse_events *)

\* a DTSTART/DTEND value: a date (v = day number), a naive datetime
\* (v = wall clock seconds) or a zone-aware datetime (v = instant)
DateVal(d) == [kind |-> "date", v |-> d]
NaiveVal(w) == [kind |-> "naive", v |-> w]
AwareVal(t) == [kind |-> "aware", v |-> t]

Word(w) == [t |-> "word", w |-> w, n |-> 0]
Num(n) == [t |-> "int", w |-> "", n |-> n]
\* str() of a datetime: "1970-01-20 00:00:00+00:00"
DateTimeTok == [t |-> "datetime", w |-> "", n |-> 0]
Part(k, v) == [k |-> k, v |-> v]

VEvent(summary, dtstart, dtend, rrule, exdate) ==
  [name |-> "VEVENT", summary |-> summary, dtstart |-> dtstart,
   dtend |-> dtend, rrule |-> rrule, exdate |-> exdate]

Other(name) ==
  [name |-> name, summary |-> "", dtstart |-> None, dtend |-> None,
   rrule |-> <<>>, exdate |-> {}]

SG(d, h) == At(d, h * Hour, SG_OFFSET)

\* The week the scenarios are laid out in starts on Sunday 1970-01-11
\* (day number 10) and ends on Saturday 1970-01-17 (day number 16).
EvA == VEvent("A", AwareVal(SG(11, 9)), AwareVal(SG(11, 10)), <<>>, {})
EvB == VEvent("B", AwareVal(SG(11, 9)), AwareVal(SG(11, 10)), <<>>, {})
EvX == VEvent("X", AwareVal(SG(8, 15)), AwareVal(SG(11, 12)), <<>>, {})
EvD == VEvent("D", DateVal(12), DateVal(13), <<>>, {})
EvW == VEvent("W", AwareVal(SG(3, 0)), AwareVal(SG(3, 1)),
              <<Part("FREQ", <<Word("WEEKLY")>>)>>, {SG(10, 0)})
EvE == VEvent("E", AwareVal(At(9, Day - 1, SG_OFFSET)), AwareVal(SG(10, 1)),
              <<Part("FREQ", <<Word("WEEKLY")>>)>>, {})
EvI == VEvent("I", NaiveVal(10 * Day + 2 * Hour), NaiveVal(10 * Day + 3 * Hour),
              <<Part("FREQ", <<Word("DAILY")>>),
                Part("INTERVAL", <<Num(2)>>)>>, {})
EvC == VEvent("C", AwareVal(SG(15, 13)), AwareVal(SG(15, 14)),
              <<Part("FREQ", <<Word("DAILY")>>),
                Part("COUNT", <<Num(2)>>)>>, {})
EvU == VEvent("U", AwareVal(SG(2, 9)), AwareVal(SG(2, 10)),
              <<Part("FREQ", <<Word("WEEKLY")>>),
                Part("UNTIL", <<DateTimeTok>>)>>, {})
EvN == VEvent("N", AwareVal(SG(12, 9)), AwareVal(SG(12, 10)),
              <<Part("INTERVAL", <<Num(2)>>)>>, {})
EvZ == VEvent("Z", AwareVal(SG(40, 9)), AwareVal(SG(40, 10)),
              <<Part("FREQ", <<Word("WEEKLY")>>)>>, {})
EvM == VEvent("M", AwareVal(SG(13, 9)), None, <<>>, {})
EvS == VEvent("S", None, AwareVal(SG(13, 10)), <<>>, {})
EvT == Other("VTIMEZONE")

Components == {EvA, EvB, EvX, EvD, EvW, EvE, EvI, EvC, EvU, EvN, EvZ, EvM,
               EvS, EvT}

MaxFeedLen == 2

Feeds == UNION {[1..n -> Components] : n \in 0..MaxFeedLen}

\* datetime.now(SG_TZ): an instant and its microsecond field
Now(t, us) == [t |-> t, us |-> us]
Nows == {Now(SG(10, 0), 0),
         Now(At(13, 12 * Hour + 34 * Minute + 56, SG_OFFSET), 500000),
         Now(At(16, Day - 1, SG_OFFSET), 0),
         Now(At(16, Day - 1, SG_OFFSET), 999999),
         Now(SG(19, 7), 0)}

----------------------------------------------------------------------------
(* parse_events *)

Event(summary, start, end, all_day) ==
  [summary |-> summary, location |-> "", start |-> start, end |-> end,
   all_day |-> all_day]

IsDate(x) == x.kind = "date"

\* datetime.combine(d, time.min) for a date, then replace(tzinfo=UTC) when
\* naive: the instant the code works with
RawInstant(x) ==
  CASE x.kind = "date" -> x.v * Day
    [] x.kind = "naive" -> x.v
    [] x.kind = "aware" -> x.v

\* re.fullmatch(r"\d+", val)
IsDigits(val) == val.t = "int" /\ val.n >= 0

RECURSIVE CleanParts(_)
\* the rebuilt "k=v;k=v" rule, as the sequence of its parts
CleanParts(rr) ==
  IF rr = <<>> THEN <<>>
  ELSE LET val == Head(rr).v[1]
           rest == CleanParts(Tail(rr))
       IN  IF val.t = "word" /\ val.w = "" THEN rest
           ELSE IF IsDigits(val) THEN rest
           ELSE <<Part(Head(rr).k, val)>> \o rest

\* the rule string with every part kept
AllParts(rr) == [i \in 1..Len(rr) |-> Part(rr[i].k, rr[i].v[1])]

HasKey(parts, k) == \E i \in 1..Len(parts) : parts[i].k = k
ValueOf(parts, k) == parts[CHOOSE i \in 1..Len(parts) : parts[i].k = k].v

BadRule == [ok |-> FALSE, step |-> 0, count |-> 0]

\* dateutil rrulestr(s, dtstart=...): the rule, or ok = FALSE where it
\* raises.  count = 0 stands for a rule without COUNT.
rrulestr(parts) ==
  IF parts = <<>> THEN BadRule
  ELSE IF \E i \in 1..Len(parts) : parts[i].v.t = "datetime" THEN BadRule
  ELSE IF \E i \in 1..Len(parts) : parts[i].k \notin {"FREQ", "INTERVAL", "COUNT"}
       THEN BadRule
  ELSE IF ~HasKey(parts, "FREQ") THEN BadRule
  ELSE IF ValueOf(parts, "FREQ").w \notin {"DAILY", "WEEKLY"} THEN BadRule
  ELSE LET period == IF ValueOf(parts, "FREQ").w = "DAILY" THEN Day ELSE 7 * Day
           interval == IF HasKey(parts, "INTERVAL")
                       THEN ValueOf(parts, "INTERVAL").n ELSE 1
           count == IF HasKey(parts, "COUNT") THEN ValueOf(parts, "COUNT").n ELSE 0
       IN  IF interval < 1 THEN BadRule
           ELSE [ok |-> TRUE, step |-> period * interval, count |-> count]

RECURSIVE BetweenFrom(_, _, _, _, _)
BetweenFrom(rule, dtstart, k, after, before) ==
  LET occ == dtstart + k * rule.step
  IN  IF occ > before \/ (rule.count > 0 /\ k >= rule.count) THEN <<>>
      ELSE IF occ >= after
           THEN <<occ>> \o BetweenFrom(rule, dtstart, k + 1, after, before)
           ELSE BetweenFrom(rule, dtstart, k + 1, after, before)

\* rule.between(after, before) with inc left at its default, False
between_exclusive(rule, dtstart, after, before) ==
  SelectSeq(BetweenFrom(rule, dtstart, 0, after, before),
            LAMBDA occ : occ > after /\ occ < before)

\* rule.between(after, before, inc=True)
between(rule, dtstart, after, before) ==
  BetweenFrom(rule, dtstart, 0, after, before)

\* lines 84-94: one record per occurrence
OccEvents(c, occs, all_day) ==
  LET dur == RawInstant(c.dtend) - RawInstant(c.dtstart)
  IN  [i \in 1..Len(occs) |-> Event(c.summary, occs[i], occs[i] + dur, all_day)]

\* an except clause that only prints the warning
Fallback_dropped(c, all_day) == <<>>

\* lines 95-104: the rule raised; fall back to the single instance
Fallback(c, all_day) ==
  <<Event(c.summary, RawInstant(c.dtstart), RawInstant(c.dtend), all_day)>>

\* lines 106-113: a non-recurring event
NonRecurring(c, all_day) ==
  <<Event(c.summary, RawInstant(c.dtstart), RawInstant(c.dtend), all_day)>>

\* One iteration of the loop over cal.walk() for a VEVENT: the records it
\* appends, or raised = TRUE where the iteration raises.  main passes both
\* range bounds and a datetime is never falsy, so the expansion is always
\* rule.between (line 80).
parse_component(c, evs, start_range, end_range) ==
  IF c.dtstart = None \/ c.dtend = None
  THEN [raised |-> TRUE, out |-> <<>>]
  ELSE LET all_day == IsDate(c.dtstart) \/ IsDate(c.dtend)
           rule == rrulestr(CleanParts(c.rrule))
           out == IF c.rrule = <<>> THEN NonRecurring(c, all_day)
                  ELSE IF ~rule.ok THEN Fallback(c, all_day)
                  ELSE OccEvents(c, between(rule, RawInstant(c.dtstart),
                                            start_range, end_range), all_day)
       IN  \* line 115 reads events[-1]
           IF evs \o out = <<>> THEN [raised |-> TRUE, out |-> <<>>]
           ELSE [raised |-> FALSE, out |-> out]

\* cal.walk(): the calendar itself, then its subcomponents
walk(c) == <<Other("VCALENDAR")>> \o c.comps

----------------------------------------------------------------------------
(* week_bounds_for *)

\* a week counted from Monday: days_to_sunday = weekday
week_bounds_for_monday(t, off) ==
  LET start == At(DateOf(t - Weekday(DateOf(t, off)) * Day, off), 0, off)
  IN  <<start, start + 6 * Day + 23 * Hour + 59 * Minute + 59>>

\* date_dt is zone-aware: instant t in a zone of offset off
week_bounds_for(t, off) ==
  LET weekday == Weekday(DateOf(t, off))
      days_to_sunday == (weekday + 1) % 7
      start == At(DateOf(t - days_to_sunday * Day, off), 0, off)
  IN  <<start, start + 6 * Day + 23 * Hour + 59 * Minute + 59>>

(* filter_week *)

\* the overlap test with strict comparisons
Overlaps_exclusive(e, sow, eow) == e.end > sow /\ e.start < eow

Overlaps(e, sow, eow) == e.end >= sow /\ e.start <= eow

Clamp(e, sow, eow) ==
  [e EXCEPT !.start = IF e.start < sow THEN sow ELSE e.start,
            !.end = IF e.end > eow THEN eow ELSE e.end]

RECURSIVE FilterLoop(_, _, _)
FilterLoop(evs, sow, eow) ==
  IF evs = <<>> THEN <<>>
  ELSE IF Overlaps(Head(evs), sow, eow)
       THEN <<Clamp(Head(evs), sow, eow)>> \o FilterLoop(Tail(evs), sow, eow)
       ELSE FilterLoop(Tail(evs), sow, eow)

\* reference_date is the zone-aware instant ref in a zone of offset
\* off; returns <<week_events, start_of_week>>
filter_week(evs, ref, off) ==
  LET wb == week_bounds_for(ref, off)
  IN  <<FilterLoop(evs, wb[1], wb[2]), wb[1]>>

----------------------------------------------------------------------------
(* generate_html *)

HEADER_HEIGHT == 20
ALL_DAY_ROW_HEIGHT == 18
TOP_PADDING == 6
PIXELS_PER_MIN == 1
MIN_EVENT_HEIGHT == 18
\* the .event and .all-day style rules: left:2px; right:2px
EVENT_LEFT == 2
EVENT_RIGHT == 2

RECURSIVE SeqMin(_), SeqMax(_)
SeqMin(s) == IF Len(s) = 1 THEN s[1] ELSE Min2(s[1], SeqMin(Tail(s)))
SeqMax(s) == IF Len(s) = 1 THEN s[1] ELSE Max2(s[1], SeqMax(Tail(s)))

IsAllDay(e) == e.all_day
IsTimed(e) == ~e.all_day

\* replace(minute=0, second=0, microsecond=0) of a Singapore datetime
FloorHour(t) == t - (Wall(t, SG_OFFSET) % Hour)

timeline(timed, sow) ==
  IF timed # <<>>
  THEN LET earliest == SeqMin([i \in 1..Len(timed) |-> timed[i].start])
           latest == SeqMax([i \in 1..Len(timed) |-> timed[i].end])
       IN  <<FloorHour(earliest), FloorHour(latest + Hour)>>
  ELSE <<sow + 8 * Hour, sow + 17 * Hour>>

\* does the all-day event cover the day column of date day_date
CoversDay(e, day_date) ==
  /\ DateOf(e.start, SG_OFFSET) <= day_date
  /\ day_date <= DateOf(e.end - 1, SG_OFFSET)

RECURSIVE CountRows(_, _)
CountRows(all_day, day_date) ==
  IF all_day = <<>> THEN 0
  ELSE (IF CoversDay(Head(all_day), day_date) THEN 1 ELSE 0)
       + CountRows(Tail(all_day), day_date)

Block(cls, i, top, height, e) ==
  [cls |-> cls, day |-> i, top |-> top, height |-> height,
   left |-> EVENT_LEFT, right |-> EVENT_RIGHT,
   summary |-> e.summary, start |-> e.start, end |-> e.end]

RECURSIVE AllDayBlocks(_, _, _, _)
AllDayBlocks(all_day, i, day_date, k) ==
  IF all_day = <<>> THEN <<>>
  ELSE IF CoversDay(Head(all_day), day_date)
       THEN <<Block("all-day", i, HEADER_HEIGHT + k * ALL_DAY_ROW_HEIGHT,
                    ALL_DAY_ROW_HEIGHT, Head(all_day))>>
            \o AllDayBlocks(Tail(all_day), i, day_date, k + 1)
       ELSE AllDayBlocks(Tail(all_day), i, day_date, k)

\* lines 271-309 for one timed event in the column of day i.  day_end_dt is
\* one microsecond before day_start + Day; "eps" records that a segment end
\* carries that missing microsecond.
TimedBlock(e, i, day_date, tl, offset) ==
  LET day_start == At(day_date, 0, LMT_OFFSET)
      seg_start == Max2(e.start, day_start)
      seg_end == Min2(e.end, day_start + Day)
      eps1 == e.end >= day_start + Day
      seg_start_tl == Max2(seg_start, tl[1])
      seg_end_tl == Min2(seg_end, tl[2])
      eps2 == eps1 /\ seg_end <= tl[2]
      dur == seg_end_tl - seg_start_tl
      minutes_from_tl == (seg_start_tl - tl[1]) \div Minute
      minutes_duration == IF eps2 THEN (dur - 1) \div Minute ELSE dur \div Minute
      top_px == offset + minutes_from_tl * PIXELS_PER_MIN
  IN  IF seg_end <= seg_start THEN <<>>
      ELSE IF seg_end_tl <= seg_start_tl THEN <<>>
      ELSE <<Block("event", i, Max2(top_px, offset),
                   Max2(MIN_EVENT_HEIGHT, minutes_duration * PIXELS_PER_MIN), e)>>

RECURSIVE TimedBlocks(_, _, _, _, _)
TimedBlocks(timed, i, day_date, tl, offset) ==
  IF timed = <<>> THEN <<>>
  ELSE TimedBlock(Head(timed), i, day_date, tl, offset)
       \o TimedBlocks(Tail(timed), i, day_date, tl, offset)

RECURSIVE DayColumns(_, _, _, _, _, _)
DayColumns(i, all_day, timed, sow, tl, offset) ==
  IF i > 6 THEN <<>>
  ELSE LET day_date == DateOf(sow + i * Day, SG_OFFSET)
       IN  AllDayBlocks(all_day, i, day_date, 0)
           \o TimedBlocks(timed, i, day_date, tl, offset)
           \o DayColumns(i + 1, all_day, timed, sow, tl, offset)

generate_html(evs, sow) ==
  LET all_day == SelectSeq(evs, IsAllDay)
      timed == SelectSeq(evs, IsTimed)
      tl == timeline(timed, sow)
      rows == [i \in 0..6 |-> CountRows(all_day, DateOf(sow + i * Day, SG_OFFSET))]
      max_rows == CHOOSE m \in {rows[i] : i \in 0..6} :
                    \A i \in 0..6 : rows[i] <= m
      offset == HEADER_HEIGHT + max_rows * ALL_DAY_ROW_HEIGHT + TOP_PADDING
  IN  [timed_area_offset |-> offset,
       total_minutes |-> (tl[2] - tl[1]) \div Minute,
       hour_labels |-> (tl[2] - tl[1]) \div Hour,
       blocks |-> DayColumns(0, all_day, timed, sow, tl, offset)]

----------------------------------------------------------------------------
(* main *)

\* an except clause that leaves cal as parsed from whatever was received
cal_after_fetch_kept(ok, feed) == Calendar(feed)

\* lines 328-332: cal after the try/except around fetch_calendar
cal_after_fetch(ok, feed) == IF ok THEN Calendar(feed) ELSE NoCal

Init ==
  /\ pc = "start"
  /\ url \in BOOLEAN
  /\ remote \in Feeds
  /\ fetched = "pending"
  /\ cal = NoCal
  /\ now = None
  /\ start_of_week = None
  /\ end_of_week = None
  /\ idx = 0
  /\ events = <<>>
  /\ week_events = <<>>
  /\ html = None
  /\ written = FALSE

\* lines 323-326: CALENDAR_ICS_URL is not set
NoUrl ==
  /\ pc = "start"
  /\ ~url
  /\ fetched' = "no_url"
  /\ cal' = NoCal
  /\ pc' = "bounds"
  /\ UNCHANGED <<url, remote, now, start_of_week, end_of_week, idx, events,
                 week_events, html, written>>

\* lines 327-329, 15-20: the fetch succeeds
FetchOk ==
  /\ pc = "start"
  /\ url
  /\ fetched' = "ok"
  /\ cal' = cal_after_fetch(TRUE, remote)
  /\ pc' = "bounds"
  /\ UNCHANGED <<url, remote, now, start_of_week, end_of_week, idx, events,
                 week_events, html, written>>

\* lines 330-332: requests.get, raise_for_status or from_ical raises
FetchFail ==
  /\ pc = "start"
  /\ url
  /\ fetched' = "error"
  /\ cal' = cal_after_fetch(FALSE, remote)
  /\ pc' = "bounds"
  /\ UNCHANGED <<url, remote, now, start_of_week, end_of_week, idx, events,
                 week_events, html, written>>

\* lines 334-338
WeekBounds ==
  /\ pc = "bounds"
  /\ \E n \in Nows :
       /\ now' = n
       /\ start_of_week' = week_bounds_for(n.t, SG_OFFSET)[1]
       /\ end_of_week' = week_bounds_for(n.t, SG_OFFSET)[2]
  /\ events' = <<>>
  /\ idx' = 1
  /\ pc' = IF cal.loaded THEN "parsing" ELSE "filter"
  /\ UNCHANGED <<url, remote, fetched, cal, week_events, html, written>>

\* lines 33-35: a component that is not a VEVENT
ParseSkip ==
  /\ pc = "parsing"
  /\ idx <= Len(walk(cal))
  /\ walk(cal)[idx].name # "VEVENT"
  /\ idx' = idx + 1
  /\ UNCHANGED <<pc, url, remote, fetched, cal, now, start_of_week, end_of_week,
                 events, week_events, html, written>>

\* lines 37-115: a VEVENT is parsed and its records appended
ParseEvent ==
  /\ pc = "parsing"
  /\ idx <= Len(walk(cal))
  /\ walk(cal)[idx].name = "VEVENT"
  /\ LET r == parse_component(walk(cal)[idx], events, start_of_week, end_of_week)
     IN  /\ ~r.raised
         /\ events' = events \o r.out
  /\ idx' = idx + 1
  /\ UNCHANGED <<pc, url, remote, fetched, cal, now, start_of_week, end_of_week,
                 week_events, html, written>>

\* the iteration raises; lines 342-344 catch it in main
ParseRaise ==
  /\ pc = "parsing"
  /\ idx <= Len(walk(cal))
  /\ walk(cal)[idx].name = "VEVENT"
  /\ parse_component(walk(cal)[idx], events, start_of_week, end_of_week).raised
  /\ events' = <<>>
  /\ pc' = "filter"
  /\ UNCHANGED <<url, remote, fetched, cal, now, start_of_week, end_of_week, idx,
                 week_events, html, written>>

\* lines 117-118, 341: the loop is over and parse_events returns
ParseReturn ==
  /\ pc = "parsing"
  /\ idx > Len(walk(cal))
  /\ pc' = "filter"
  /\ UNCHANGED <<url, remote, fetched, cal, now, start_of_week, end_of_week, idx,
                 events, week_events, html, written>>

\* line 347
Filter ==
  /\ pc = "filter"
  /\ week_events' = filter_week(events, now.t, SG_OFFSET)[1]
  /\ start_of_week' = filter_week(events, now.t, SG_OFFSET)[2]
  /\ pc' = "render"
  /\ UNCHANGED <<url, remote, fetched, cal, now, end_of_week, idx, events, html,
                 written>>

\* line 350
Generate ==
  /\ pc = "render"
  /\ html' = generate_html(week_events, start_of_week)
  /\ pc' = "write"
  /\ UNCHANGED <<url, remote, fetched, cal, now, start_of_week, end_of_week, idx,
                 events, week_events, written>>

\* lines 353-360: open/write may raise; the failure is printed, not raised
Write ==
  /\ pc = "write"
  /\ \E ok \in BOOLEAN : written' = ok
  /\ pc' = "done"
  /\ UNCHANGED <<url, remote, fetched, cal, now, start_of_week, end_of_week, idx,
                 events, week_events, html>>

Next ==
  \/ NoUrl
  \/ FetchOk
  \/ FetchFail
  \/ WeekBounds
  \/ ParseSkip
  \/ ParseEvent
  \/ ParseRaise
  \/ ParseReturn
  \/ Filter
  \/ Generate
  \/ Write

Spec == Init /\ [][Next]_vars

----------------------------------------------------------------------------
(* Properties *)

\* the component of the feed alphabet an event record was built from
CompOf(summary) ==
  CHOOSE c \in Components : c.name = "VEVENT" /\ c.summary = summary

HasBounds(c) == c.dtstart # None /\ c.dtend # None
WellFormed(c) == c.name = "VEVENT" /\ HasBounds(c)
\* the rule the code builds for c can be interpreted
Expands(c) == c.rrule # <<>> /\ rrulestr(CleanParts(c.rrule)).ok
Uninterpretable(c) == c.rrule # <<>> /\ ~rrulestr(CleanParts(c.rrule)).ok

\* the components parse_events has finished with, while the loop runs
Done == IF pc = "parsing" THEN {walk(cal)[j] : j \in 1..(idx - 1)} ELSE {}
DoneCount(c) == Cardinality({j \in 1..(idx - 1) : walk(cal)[j] = c})
EventsOf(c) == {i \in 1..Len(events) : events[i].summary = c.summary}
StartsOf(c) == {events[i].start : i \in EventsOf(c)}

Parsed == pc \in {"filter", "render", "write", "done"}
Filtered == pc \in {"render", "write", "done"}
Rendered == pc \in {"write", "done"}
HasWindow == pc \notin {"start", "bounds"}

\* instant t is an occurrence of the rule the code built for c
Generates(c, t) ==
  LET rule == rrulestr(CleanParts(c.rrule))
      dtstart == RawInstant(c.dtstart)
  IN  /\ t >= dtstart
      /\ (t - dtstart) % rule.step = 0
      /\ rule.count > 0 => (t - dtstart) \div rule.step < rule.count

\* C1: parse_events never emits an occurrence of a recurring event whose
\* start instant is an entry of the event's EXDATE set.
C1_ExclusionCorrectness ==
  \A i \in 1..Len(events) :
    LET c == CompOf(events[i].summary)
    IN  Expands(c) => events[i].start \notin c.exdate

\* C2: every emitted event with all_day = TRUE has start and end at
\* 00:00:00 in Asia/Singapore.
C2_AllDayMidnight ==
  \A i \in 1..Len(events) :
    events[i].all_day =>
      /\ TimeOfDay(events[i].start, SG_OFFSET) = 0
      /\ TimeOfDay(events[i].end, SG_OFFSET) = 0

\* C3: when the feed holds a VEVENT without DTSTART or without DTEND, every
\* well-formed non-recurring event of the feed is still in the list that
\* parse_events hands to the filter.
C3_MalformedSkipped ==
  (Parsed /\ cal.loaded
     /\ \E j \in 1..Len(cal.comps) :
          cal.comps[j].name = "VEVENT" /\ ~HasBounds(cal.comps[j]))
  => \A j \in 1..Len(cal.comps) :
       (WellFormed(cal.comps[j]) /\ cal.comps[j].rrule = <<>>)
         => EventsOf(cal.comps[j]) # {}

\* C4: every occurrence emitted from a rule starts inside the window
\* [start_of_week, end_of_week], there are finitely many of them (at most one
\* per rule period in the window), and an occurrence of the rule that falls
\* exactly on either window bound is emitted.
C4_WindowBounded ==
  /\ HasWindow =>
       \A i \in 1..Len(events) :
         Expands(CompOf(events[i].summary)) =>
           /\ start_of_week <= events[i].start
           /\ events[i].start <= end_of_week
  /\ \A c \in Done :
       (WellFormed(c) /\ Expands(c)) =>
         /\ Cardinality(EventsOf(c))
              <= DoneCount(c)
                 * ((end_of_week - start_of_week)
                      \div rrulestr(CleanParts(c.rrule)).step + 1)
         /\ \A t \in {start_of_week, end_of_week} :
              Generates(c, t) => t \in StartsOf(c)

C4_Witness ==
  /\ pc = "parsing"
  /\ \E i \in 1..Len(events) :
       Expands(CompOf(events[i].summary)) /\ events[i].start = start_of_week
  /\ \E i \in 1..Len(events) :
       Expands(CompOf(events[i].summary)) /\ events[i].start = end_of_week

\* C5: a VEVENT whose rule cannot be interpreted makes the loop append
\* exactly one record, with the source's own start and end, and go on to the
\* next component without raising.
C5_FallbackSingle ==
  [][(pc = "parsing" /\ idx <= Len(walk(cal))
        /\ WellFormed(walk(cal)[idx]) /\ Uninterpretable(walk(cal)[idx]))
     => LET c == walk(cal)[idx]
        IN  /\ pc' = "parsing"
            /\ idx' = idx + 1
            /\ Len(events') = Len(events) + 1
            /\ SubSeq(events', 1, Len(events)) = events
            /\ events'[Len(events')].summary = c.summary
            /\ events'[Len(events')].start = RawInstant(c.dtstart)
            /\ events'[Len(events')].end = RawInstant(c.dtend)]_vars

C5_Witness ==
  /\ pc = "parsing"
  /\ idx > 1
  /\ Uninterpretable(walk(cal)[idx - 1])
  /\ events # <<>>
  /\ events[Len(events)].summary = walk(cal)[idx - 1].summary
  /\ events[Len(events)].start = RawInstant(walk(cal)[idx - 1].dtstart)

\* the indices of the events that meet the inclusive overlap test
InWindow == {i \in 1..Len(events) :
               events[i].end >= start_of_week /\ events[i].start <= end_of_week}
\* the k-th smallest member of InWindow
Nth(k) == CHOOSE i \in InWindow : Cardinality({j \in InWindow : j <= i}) = k

\* C6: filter_week returns, in order, exactly the events with
\* end >= window.start and start <= window.end, with start raised to
\* window.start and end lowered to window.end; the results lie inside the
\* window and start <= end is preserved.
C6_FilterClamp ==
  Filtered =>
    /\ Len(week_events) = Cardinality(InWindow)
    /\ \A k \in 1..Len(week_events) :
         LET e == events[Nth(k)]
             r == week_events[k]
         IN  /\ r.start = Max2(e.start, start_of_week)
             /\ r.end = Min2(e.end, end_of_week)
             /\ r.summary = e.summary
             /\ r.all_day = e.all_day
             /\ start_of_week <= r.start
             /\ r.end <= end_of_week
             /\ e.start <= e.end => r.start <= r.end

C6_Witness ==
  /\ Filtered
  /\ \E k \in 1..Len(week_events) :
       /\ events[Nth(k)].start < start_of_week
       /\ week_events[k].start = start_of_week
  /\ Len(week_events) < Len(events)

\* C7 as stated: without a feed URL, or when the fetch fails, main does not
\* complete having written a calendar document.
C7_FatalWithoutFeed ==
  ~(pc = "done" /\ fetched \in {"no_url", "error"} /\ written)

\* C7 amended: without a feed URL, or when the fetch fails, main goes on with
\* no events at all: nothing is parsed, the filter returns nothing, the
\* document rendered has no event block, and the run completes.
C7_EmptyCalendar ==
  fetched \in {"no_url", "error"} =>
    /\ events = <<>>
    /\ week_events = <<>>
    /\ pc # "parsing"
    /\ Rendered => html.blocks = <<>>

C7_Witness ==
  /\ pc = "done"
  /\ fetched = "error"
  /\ remote # <<>>
  /\ written
  /\ html.blocks = <<>>

\* C8: no two timed event blocks in the same day column that have the same
\* horizontal position come from events with overlapping [start, end).
C8_LanesConflictFree ==
  Rendered =>
    \A i, j \in 1..Len(html.blocks) :
      LET a == html.blocks[i]
          b == html.blocks[j]
      IN  (i < j /\ a.cls = "event" /\ b.cls = "event" /\ a.day = b.day
             /\ a.left = b.left /\ a.right = b.right)
          => ~(a.start < b.end /\ b.start < a.end)

\* C9: for a rule that is well formed as written in the feed, the
\* occurrences emitted from the rebuilt rule are those of the original rule.
C9_StrippingKeepsSemantics ==
  \A c \in Done :
    (WellFormed(c) /\ c.rrule # <<>> /\ rrulestr(AllParts(c.rrule)).ok) =>
      LET occs == between(rrulestr(AllParts(c.rrule)), RawInstant(c.dtstart),
                          start_of_week, end_of_week)
      IN  StartsOf(c) = {occs[i] : i \in 1..Len(occs)}

\* C10: the window starts at 00:00:00 of the most recent Sunday on or before
\* now's date, ends 6 days 23:59:59 later, start <= now, and now <= end when
\* now has no microseconds; the start filter_week returns belongs to the
\* same window as the end main computed.
C10_WeekBounds ==
  HasWindow =>
    /\ Weekday(DateOf(start_of_week, SG_OFFSET)) = 6
    /\ TimeOfDay(start_of_week, SG_OFFSET) = 0
    /\ DateOf(start_of_week, SG_OFFSET) <= DateOf(now.t, SG_OFFSET)
    /\ DateOf(now.t, SG_OFFSET) - DateOf(start_of_week, SG_OFFSET) <= 6
    /\ end_of_week = start_of_week + 6 * Day + 23 * Hour + 59 * Minute + 59
    /\ start_of_week <= now.t
    /\ now.us = 0 => now.t <= end_of_week

C10_Witness ==
  /\ Filtered
  /\ now.us = 0
  /\ now.t = end_of_week
  /\ Weekday(DateOf(now.t, SG_OFFSET)) = 5

====
